---- MODULE Spec2Model ----
(***************************************************************************)
(* Streaming extraction, filtered extraction and batch consolidation of    *)
(* src/xml_parser.py and src/backup_xml_parser.py.                         *)
(*                                                                         *)
(* A text is a sequence of symbols; " " is the whitespace symbol and the   *)
(* other symbols stand for whitespace-free pieces of text.  lxml gives     *)
(* None for an element without text, never the empty string, so None is    *)
(* the empty sequence and Python's truth test `if elem.text` is            *)
(* `text # None`.  A document is the sequence of its elements in document  *)
(* order; every element names its parent (0 for the root).  A comment in   *)
(* front of the root element is a node of its own, tagged "#comment", with *)
(* parent 0: lxml gives it as the root's previous sibling.  The tag of an   *)
(* element in a namespace is lxml's "{uri}local" (here "{n}local"), the    *)
(* same for a default and for a prefixed namespace.  Attributes and tail   *)
(* text are not modelled.                                                  *)
(***************************************************************************)
EXTENDS Integers, Sequences, FiniteSets, TLC

\* ------------------------------------------------------------------ bounds
\* largest generated document (elements)
MaxNodes == 3
\* longest list of source files in one call
MaxFiles == 2
\* longest raw filter_parent_path, in symbols
MaxPath == 4
\* longest list of source files on which a call is made a second time
MaxRepeat == 1
\* longest value handed to format_uf, in characters
MaxCode == 2

\* ------------------------------------------------------------------- text
None == <<>>

Whitespace == {" "}

\* str.upper() on one symbol
UpperSym(c) ==
  CASE c = "a" -> "A"
    [] c = "sp" -> "SP"
    [] OTHER -> c

\* str.upper()
Upper(s) == [i \in 1..Len(s) |-> UpperSym(s[i])]

RECURSIVE LStrip(_)
LStrip(s) == IF s # <<>> /\ Head(s) \in Whitespace THEN LStrip(Tail(s)) ELSE s

RECURSIVE RStrip(_)
RStrip(s) ==
  IF s # <<>> /\ s[Len(s)] \in Whitespace THEN RStrip(SubSeq(s, 1, Len(s) - 1)) ELSE s

\* str.strip()
Strip(s) == RStrip(LStrip(s))

\* the sentinels of the two modules; none of them is a text of a document
TARGET_ABSENT == <<"[TAG ALVO NAO ENCONTRADA/VAZIA NO CONTEXTO DO FILTRO]">>
ARQUIVO_INVALIDO == <<"[ARQUIVO INVALIDO]">>
NENHUM_VALOR == <<"[NENHUM VALOR ENCONTRADO COM ESTES CRITERIOS]">>
ERRO_AO_PROCESSAR == <<"[ERRO AO PROCESSAR XML]">>
ERRO_INESPERADO == <<"[ERRO INESPERADO: ...]">>

\* ------------------------------------------------------------- documents
Node(tag, text, parent) == [tag |-> tag, text |-> text, parent |-> parent]

\* the local name of a tag: what the wildcard {*} compares
LocalName(tag) ==
  CASE tag = "{n}r" -> "r"
    [] tag = "{n}Fatura" -> "Fatura"
    [] tag = "{n}infNFCom" -> "infNFCom"
    [] tag = "{n}nNF" -> "nNF"
    [] tag = "{n}dest" -> "dest"
    [] tag = "{n}xNome" -> "xNome"
    [] tag = "{n}UF" -> "UF"
    [] OTHER -> tag

\* index of the last element of the subtree of element i of document d
RECURSIVE EndOf(_, _, _)
EndOf(d, i, j) ==
  IF j < Len(d) /\ d[j + 1].parent >= i THEN EndOf(d, i, j + 1) ELSE j

LastOf(d, i) == EndOf(d, i, i)

\* the ancestors-or-self of the last element: where document order allows
\* the next element to be attached
RECURSIVE Spine(_, _)
Spine(d, i) == IF i = 0 THEN {} ELSE {i} \cup Spine(d, d[i].parent)

GenTags == {"nNF", "x"}
GenTexts == {None, <<" ">>, <<"a">>, <<" ", "a">>}

Extend(d) ==
  { Append(d, Node(t, x, p)) : t \in GenTags, x \in GenTexts, p \in Spine(d, Len(d)) }

RECURSIVE DocsOfSize(_)
DocsOfSize(n) ==
  IF n = 1 THEN { <<Node(t, x, 0)>> : t \in GenTags, x \in GenTexts }
  ELSE UNION { Extend(d) : d \in DocsOfSize(n - 1) }

\* every document of at most MaxNodes elements over GenTags and GenTexts
GenDocs == UNION { DocsOfSize(n) : n \in 1..MaxNodes }


\* ---- fixture documents
V == <<"CLUBE DE CAMPO MOEMA">>

\* the document of the tests of backup_xml_parser.py: four infNFCom blocks,
\* the first and the fourth with dest/xNome = V
TestDoc ==
  << Node("documento", <<" ">>, 0),
     Node("infNFCom", <<" ">>, 1),
       Node("ide", <<" ">>, 2), Node("nNF", <<"1001">>, 3),
       Node("dest", <<" ">>, 2), Node("xNome", V, 5),
         Node("enderDest", <<" ">>, 5), Node("UF", <<"SP">>, 7),
       Node("outro", <<" ">>, 2), Node("xNome", <<"NAO FILTRAR ESTE">>, 9),
     Node("infNFCom", <<" ">>, 1),
       Node("ide", <<" ">>, 11), Node("nNF", <<"1002">>, 12),
       Node("dest", <<" ">>, 11), Node("xNome", <<"OUTRO CLIENTE">>, 14),
         Node("enderDest", <<" ">>, 14), Node("UF", <<"RJ">>, 16),
     Node("infNFCom", <<" ">>, 1),
       Node("ide", <<" ">>, 18), Node("nNF", <<"1003">>, 19),
       Node("dest", <<" ">>, 18),
         Node("enderDest", <<" ">>, 21), Node("UF", <<"SP">>, 22),
     Node("infNFCom", <<" ">>, 1),
       Node("ide", <<" ">>, 24), Node("nNF", <<"1004">>, 25),
       Node("dest", <<" ">>, 24), Node("xNome", V, 27),
         Node("enderDest", <<" ">>, 27), Node("UF", <<"MG">>, 29) >>

\* two Fatura records, the first of the customer V in state " sp"
FaturaDoc ==
  << Node("r", None, 0),
     Node("Fatura", None, 1),
       Node("infNFCom", None, 2),
         Node("ide", None, 3), Node("nNF", <<" ", "1001">>, 4),
         Node("dest", None, 3), Node("xNome", <<"CLUBE DE CAMPO MOEMA", " ">>, 6),
           Node("enderDest", None, 6), Node("UF", <<" ", "sp">>, 8),
     Node("Fatura", None, 1),
       Node("infNFCom", None, 10),
         Node("ide", None, 11), Node("nNF", <<"1002">>, 12),
         Node("dest", None, 11), Node("xNome", <<"OUTRO CLIENTE">>, 14),
           Node("enderDest", None, 14), Node("UF", <<"RJ">>, 16) >>

\* a Fatura record inside a Fatura record
NestedDoc ==
  << Node("r", None, 0),
     Node("Fatura", None, 1),
       Node("Fatura", None, 2),
         Node("nNF", <<"1003">>, 3), Node("UF", <<"SP">>, 3),
       Node("nNF", <<"1001">>, 2), Node("UF", <<"SP">>, 2) >>

\* a Fatura record without the context element infNFCom
NoContextDoc ==
  << Node("r", None, 0),
     Node("Fatura", None, 1),
       Node("nNF", <<"1001">>, 2), Node("xNome", V, 2) >>

\* a matching context without the target element
NoTargetDoc ==
  << Node("r", None, 0),
     Node("Fatura", None, 1),
       Node("infNFCom", None, 2),
         Node("dest", None, 3), Node("xNome", V, 4) >>

\* a document that starts with a comment; its root is a Fatura record
PrologDoc ==
  << Node("#comment", <<"lote">>, 0),
     Node("Fatura", None, 0),
       Node("nNF", <<"1001">>, 2), Node("UF", <<"SP">>, 2) >>

\* a Fatura record with the UF of two parties outside the usual paths
TwoUfDoc ==
  << Node("r", None, 0),
     Node("Fatura", None, 1),
       Node("emitente", None, 2), Node("UF", <<"RJ">>, 3),
       Node("destinatario", None, 2), Node("UF", <<"SP">>, 5) >>

\* a context whose own xNome child is another customer and whose dest/xNome
\* is V
ShadowDoc ==
  << Node("r", None, 0),
     Node("Fatura", None, 1),
       Node("infNFCom", None, 2),
         Node("xNome", <<"OUTRO CLIENTE">>, 3),
         Node("nNF", <<"1001">>, 3),
         Node("dest", None, 3), Node("xNome", V, 6) >>

\* a matching context whose target element holds only whitespace
BlankTargetDoc ==
  << Node("r", None, 0),
     Node("Fatura", None, 1),
       Node("infNFCom", None, 2),
         Node("nNF", <<" ">>, 3),
         Node("dest", None, 3), Node("xNome", V, 5) >>

\* a Fatura record of the customer V whose elements are all in the
\* namespace n
NamespacedDoc ==
  << Node("{n}r", None, 0),
     Node("{n}Fatura", None, 1),
       Node("{n}infNFCom", None, 2),
         Node("{n}nNF", <<"1001">>, 3),
         Node("{n}dest", None, 3), Node("{n}xNome", V, 5), Node("{n}UF", <<"SP">>, 5) >>

\* a Fatura record with an nNF and a UF of its own in front of its context
ScopeDoc ==
  << Node("r", None, 0),
     Node("Fatura", None, 1),
       Node("nNF", <<"9999">>, 2), Node("UF", <<"RJ">>, 2),
       Node("infNFCom", None, 2),
         Node("nNF", <<"1001">>, 5),
         Node("dest", None, 5), Node("xNome", V, 7), Node("UF", <<"SP">>, 7) >>

\* a context inside a context: the customer V is named in the inner one
NestedContextDoc ==
  << Node("r", None, 0),
     Node("Fatura", None, 1),
       Node("infNFCom", None, 2),
         Node("nNF", <<"1002">>, 3),
         Node("infNFCom", None, 3),
           Node("nNF", <<"1001">>, 5), Node("xNome", V, 5) >>

\* ---- sources: what process_files and the consolidators are handed
\* kind: "buffer" has getvalue() and seek(); "path" is the name of an
\* existing file; "invalid" is anything else; "broken" has getvalue() but
\* its seek() raises.  err: "XMLSyntaxError" when the parser raises once
\* `at` end events were delivered.
Source(name, kind, doc, err, at) ==
  [name |-> name, kind |-> kind, doc |-> doc, err |-> err, at |-> at]

GoodSource(name, kind, doc) == Source(name, kind, doc, "none", 0)

FixtureSources ==
  { GoodSource("test.xml", "path", TestDoc),
    GoodSource("faturas.xml", "buffer", FaturaDoc),
    GoodSource("nested.xml", "path", NestedDoc),
    GoodSource("nocontext.xml", "buffer", NoContextDoc),
    GoodSource("notarget.xml", "buffer", NoTargetDoc),
    GoodSource("prolog.xml", "buffer", PrologDoc),
    GoodSource("twouf.xml", "path", TwoUfDoc),
    GoodSource("shadow.xml", "buffer", ShadowDoc),
    GoodSource("blank.xml", "buffer", BlankTargetDoc),
    GoodSource("ns.xml", "buffer", NamespacedDoc),
    GoodSource("scope.xml", "path", ScopeDoc),
    GoodSource("nestedctx.xml", "buffer", NestedContextDoc),
    Source("missing.xml", "invalid", <<>>, "none", 0),
    Source("broken", "broken", <<>>, "none", 0),
    Source("empty.xml", "buffer", FaturaDoc, "XMLSyntaxError", 0),
    Source("truncated.xml", "path", FaturaDoc, "XMLSyntaxError", 1) }

GenSources == { GoodSource("gen.xml", "buffer", d) : d \in GenDocs }

RECURSIVE ListsUpTo(_, _)
ListsUpTo(S, n) ==
  IF n = 0 THEN { <<>> }
  ELSE LET L == ListsUpTo(S, n - 1)
       IN  L \cup { Append(l, s) : l \in { x \in L : Len(x) = n - 1 }, s \in S }

Readable(f) == f.kind \in {"buffer", "path"}
Good(f) == Readable(f) /\ f.err = "none"


\* ------------------------------------------------------- the parsed tree
\* lxml's element tree as the walk sees and changes it: `attached` is the
\* link of an element to its parent, which del parent[0] cuts
ParseTree(d) ==
  [i \in 1..Len(d) |->
     [tag |-> d[i].tag, text |-> d[i].text, parent |-> d[i].parent, attached |-> TRUE]]

\* j is a descendant of i in tree t
RECURSIVE Reach(_, _, _)
Reach(t, j, i) ==
  /\ j > i
  /\ t[j].attached
  /\ \/ t[j].parent = i
     \/ t[j].parent > i /\ Reach(t, t[j].parent, i)

Descendants(t, i) == { j \in DOMAIN t : Reach(t, j, i) }

Children(t, i) == { j \in DOMAIN t : t[j].attached /\ t[j].parent = i }

\* the elements of a set in document order
RECURSIVE InOrder(_)
InOrder(S) ==
  IF S = {} THEN <<>>
  ELSE LET m == CHOOSE x \in S : \A y \in S : x <= y
       IN  <<m>> \o InOrder(S \ {m})

\* elem.clear(): no text, no children
Clear(t, i) ==
  [j \in DOMAIN t |->
     IF j = i THEN [t[j] EXCEPT !.text = None]
     ELSE IF t[j].parent = i THEN [t[j] EXCEPT !.attached = FALSE]
     ELSE t[j]]

\* elem.getprevious() is not None
HasPrevious(t, i) ==
  t[i].attached /\ \E j \in DOMAIN t : j < i /\ t[j].attached /\ t[j].parent = t[i].parent

\* while elem.getprevious() is not None: del elem.getparent()[0]
PrunePrevious(t, i) ==
  IF ~HasPrevious(t, i) \/ t[i].parent = 0 THEN t
  ELSE [j \in DOMAIN t |->
          IF j < i /\ t[j].parent = t[i].parent THEN [t[j] EXCEPT !.attached = FALSE]
          ELSE t[j]]

\* the loop runs on an element without parent: elem.getparent() is None and
\* del None[0] raises TypeError
PruneRaises(t, i) == HasPrevious(t, i) /\ t[i].parent = 0

\* the end events of iterparse(events=("end",), tag=tag): the elements named
\* tag in the order in which they close
RECURSIVE EndOrder(_, _)
EndOrder(d, S) ==
  IF S = {} THEN <<>>
  ELSE LET m == CHOOSE x \in S :
                  \A y \in S : LastOf(d, x) < LastOf(d, y)
                               \/ (LastOf(d, x) = LastOf(d, y) /\ x >= y)
       IN  <<m>> \o EndOrder(d, S \ {m})

EndEvents(d, tag) == EndOrder(d, { i \in DOMAIN d : d[i].tag = tag })

\* ------------------------------------------------------ paths and XPath
\* a path string is a sequence of symbols; "/" is the separator
\* str.strip("/")
RECURSIVE LStripSlash(_)
LStripSlash(s) == IF s # <<>> /\ Head(s) = "/" THEN LStripSlash(Tail(s)) ELSE s

RECURSIVE RStripSlash(_)
RStripSlash(s) ==
  IF s # <<>> /\ s[Len(s)] = "/" THEN RStripSlash(SubSeq(s, 1, Len(s) - 1)) ELSE s

StripSlash(s) == RStripSlash(LStripSlash(s))

\* str.split("/"): empty pieces are kept, "".split("/") is [""]
RECURSIVE SplitAcc(_, _, _)
SplitAcc(s, cur, acc) ==
  IF s = <<>> THEN Append(acc, cur)
  ELSE IF Head(s) = "/" THEN SplitAcc(Tail(s), <<>>, Append(acc, cur))
  ELSE SplitAcc(Tail(s), Append(cur, Head(s)), acc)

Split(s) == SplitAcc(s, <<>>, <<>>)

\* "/".join(pieces)
RECURSIVE Join(_)
Join(ps) ==
  IF ps = <<>> THEN <<>>
  ELSE IF Len(ps) = 1 THEN ps[1]
  ELSE ps[1] \o <<"/">> \o Join(Tail(ps))

\* the pieces p with `if p`
NonEmpty(ps) == SelectSeq(ps, LAMBDA p : p # <<>>)

\* the resolver without the `if p` of the generator
ResolvePathKeepingEmpty(filter_parent_path, filter_tag) ==
  IF filter_parent_path # <<>>
  THEN LET clean_path == Join(Split(StripSlash(filter_parent_path)))
       IN  IF clean_path # <<>> THEN clean_path \o <<"/">> \o <<filter_tag>>
           ELSE <<filter_tag>>
  ELSE <<filter_tag>>

\* xpath_filter_tag of extract_filtered_tag_data
ResolvePath(filter_parent_path, filter_tag) ==
  IF filter_parent_path # <<>>
  THEN LET clean_path == Join(NonEmpty(Split(StripSlash(filter_parent_path))))
       IN  IF clean_path # <<>> THEN clean_path \o <<"/">> \o <<filter_tag>>
           ELSE <<filter_tag>>
  ELSE <<filter_tag>>

\* one child step: the children named by the path piece seg
ChildStep(t, S, seg) ==
  { j \in DOMAIN t : t[j].attached /\ t[j].parent \in S /\ seg = <<t[j].tag>> }

RECURSIVE ChildSteps(_, _, _)
ChildSteps(t, S, segs) ==
  IF segs = <<>> THEN S ELSE ChildSteps(t, ChildStep(t, S, Head(segs)), Tail(segs))

\* elem.xpath("./" + path): the elements at exactly this path below elem
XPathChild(t, i, path) == ChildSteps(t, {i}, Split(path))

\* elem.xpath(".//" + path): the path may start at elem or at any descendant
XPathDescendant(t, i, path) == ChildSteps(t, {i} \cup Descendants(t, i), Split(path))

\* elem.find(".//" + tag): the first descendant named tag, 0 for None
FindDescendant(t, i, tag) ==
  LET S == XPathDescendant(t, i, <<tag>>)
  IN  IF S = {} THEN 0 ELSE InOrder(S)[1]

\* ------------------------------------------------------------- counters
\* a counter that puts a new key in front of the others
CounterIncFront(c, key) ==
  IF \E k \in DOMAIN c : c[k].value = key
  THEN [k \in DOMAIN c |-> IF c[k].value = key THEN [c[k] EXCEPT !.count = @ + 1] ELSE c[k]]
  ELSE << [value |-> key, count |-> 1] >> \o c

\* collections.Counter: the keys in the order of their first increment
RECURSIVE CounterInc(_, _)
CounterInc(c, key) ==
  IF c = <<>> THEN << [value |-> key, count |-> 1] >>
  ELSE IF Head(c).value = key
       THEN << [Head(c) EXCEPT !.count = @ + 1] >> \o Tail(c)
       ELSE << Head(c) >> \o CounterInc(Tail(c), key)

RECURSIVE CounterSum(_)
CounterSum(c) == IF c = <<>> THEN 0 ELSE Head(c).count + CounterSum(Tail(c))

CounterKeys(c) == { c[k].value : k \in DOMAIN c }


\* --------------------------------------------------- the two extractors
\* text_content = elem.text.strip() if elem.text else ""
TextContent(t, e) == IF t[e].text # None THEN Strip(t[e].text) ELSE <<>>

\* body of the loop of extract_tag_data for the element e; exc: the body
\* raised
ExtractTagDataBody(t, c, e) ==
  [tree |-> PrunePrevious(Clear(t, e), e), counter |-> CounterInc(c, TextContent(t, e)),
   exc |-> PruneRaises(t, e)]

\* the filter with the descendant search whenever the path finds nothing
FilterMatchAlwaysFallback(t, ctx, filter_tag, filter_value, filter_parent_path) ==
  LET xpath_filter_tag == ResolvePath(filter_parent_path, filter_tag)
      direct == XPathChild(t, ctx, xpath_filter_tag)
      filter_elements ==
        IF direct = {} THEN XPathDescendant(t, ctx, <<filter_tag>>) ELSE direct
  IN  \E j \in filter_elements : t[j].text # None /\ Strip(t[j].text) = filter_value

\* filter_elements and the loop that sets filter_match
FilterMatch(t, ctx, filter_tag, filter_value, filter_parent_path) ==
  LET xpath_filter_tag == ResolvePath(filter_parent_path, filter_tag)
      direct == XPathChild(t, ctx, xpath_filter_tag)
      filter_elements ==
        IF direct = {} /\ filter_parent_path = <<>>
        THEN XPathDescendant(t, ctx, <<filter_tag>>)
        ELSE direct
  IN  \E j \in filter_elements : t[j].text # None /\ Strip(t[j].text) = filter_value

\* target_value_found_in_context, searched below the element scope
TargetValue(t, scope, target_tag) ==
  LET target_elements == InOrder(XPathDescendant(t, scope, <<target_tag>>))
  IN  IF target_elements # <<>> /\ t[target_elements[1]].text # None
      THEN Strip(t[target_elements[1]].text)
      ELSE TARGET_ABSENT

\* the body with the target searched inside the context for every target
ExtractFilteredBodyContextScope(t, c, e, r) ==
  LET fatura_element == FindDescendant(t, e, r.parent_tag)
  IN  IF fatura_element = 0
      THEN [tree |-> t, counter |-> c, exc |-> TRUE]
      ELSE LET filter_match ==
                 FilterMatch(t, fatura_element, r.filter_tag, r.filter_value,
                             r.filter_parent_path)
           IN  [tree |-> PrunePrevious(Clear(t, fatura_element), fatura_element),
                counter |-> IF filter_match
                            THEN CounterInc(c, TargetValue(t, fatura_element, r.tag_name))
                            ELSE c,
                exc |-> PruneRaises(t, fatura_element)]

\* body of the loop of xml_parser.extract_filtered_tag_data for the Fatura
\* element e; exc: the body raised (fatura_element is None, or the pruning
\* loop raised)
ExtractFilteredBody(t, c, e, r) ==
  LET fatura_element == FindDescendant(t, e, r.parent_tag)
  IN  IF fatura_element = 0
      THEN [tree |-> t, counter |-> c, exc |-> TRUE]
      ELSE LET filter_match ==
                 FilterMatch(t, fatura_element, r.filter_tag, r.filter_value,
                             r.filter_parent_path)
               scope == IF r.tag_name = "nNF" THEN e ELSE fatura_element
           IN  [tree |-> PrunePrevious(Clear(t, fatura_element), fatura_element),
                counter |-> IF filter_match
                            THEN CounterInc(c, TargetValue(t, scope, r.tag_name))
                            ELSE c,
                exc |-> PruneRaises(t, fatura_element)]

\* body of the loop of backup_xml_parser.extract_filtered_tag_data for the
\* context element e
ExtractFilteredBackupBody(t, c, e, r) ==
  LET filter_match ==
        FilterMatch(t, e, r.filter_tag, r.filter_value, r.filter_parent_path)
  IN  [tree |-> PrunePrevious(Clear(t, e), e),
       counter |-> IF filter_match
                   THEN CounterInc(c, TargetValue(t, e, r.tag_name))
                   ELSE c,
       exc |-> PruneRaises(t, e)]

\* ------------------------------------------------------- serialization
\* etree.tostring(elem, pretty_print=True) as a sequence of tokens.  An
\* element without text gets indentation (whitespace text) before and
\* after each of its children; an element with text is written as it is.
Indent == [k |-> "text", chars |-> <<" ">>]

RECURSIVE Serialize(_, _)
RECURSIVE SerializeAll(_, _, _)
Serialize(t, i) ==
  LET kids == InOrder(Children(t, i))
      pretty == t[i].text = None /\ kids # <<>>
  IN  << [k |-> "open", tag |-> t[i].tag] >>
      \o (IF t[i].text # None THEN << [k |-> "text", chars |-> t[i].text] >>
          ELSE IF pretty THEN << Indent >> ELSE <<>>)
      \o SerializeAll(t, kids, pretty)
      \o << [k |-> "close", tag |-> t[i].tag] >>
SerializeAll(t, kids, pretty) ==
  IF kids = <<>> THEN <<>>
  ELSE Serialize(t, Head(kids)) \o (IF pretty THEN << Indent >> ELSE <<>>)
       \o SerializeAll(t, Tail(kids), pretty)

IsBlank(chars) == Strip(chars) = <<>>

\* the parser on a sequence of tokens: text right after a start tag is the
\* element's text, text after an end tag is tail text (dropped).  With
\* remove_blank_text, whitespace-only text is kept only as the whole
\* content of an element.
RECURSIVE ParseAcc(_, _, _, _, _)
ParseAcc(toks, nodes, stack, afterOpen, remove_blank_text) ==
  IF toks = <<>> THEN nodes
  ELSE LET tok == Head(toks)
           top == IF stack = <<>> THEN 0 ELSE stack[Len(stack)]
       IN  CASE tok.k = "open" ->
                  ParseAcc(Tail(toks), Append(nodes, Node(tok.tag, None, top)),
                           Append(stack, Len(nodes) + 1), TRUE, remove_blank_text)
             [] tok.k = "close" ->
                  ParseAcc(Tail(toks), nodes, SubSeq(stack, 1, Len(stack) - 1), FALSE,
                           remove_blank_text)
             [] OTHER ->
                  LET leaf == Len(toks) > 1 /\ toks[2].k = "close"
                      keep == afterOpen /\ top # 0
                              /\ (~remove_blank_text \/ ~IsBlank(tok.chars) \/ leaf)
                  IN  ParseAcc(Tail(toks),
                               IF keep THEN [nodes EXCEPT ![top].text = tok.chars]
                               ELSE nodes,
                               stack, FALSE, remove_blank_text)

Parse(toks) == ParseAcc(toks, <<>>, <<>>, FALSE, FALSE)
ParseNoBlanks(toks) == ParseAcc(toks, <<>>, <<>>, FALSE, TRUE)

\* the subtree of element i of document d as a document of its own
Subtree(d, i) ==
  [j \in 1..(LastOf(d, i) - i + 1) |->
     Node(d[i + j - 1].tag, d[i + j - 1].text,
          IF j = 1 THEN 0 ELSE d[i + j - 1].parent - (i - 1))]

\* what "the same descendant tags and text" compares: tags, nesting and
\* trimmed text
Structure(d) ==
  [j \in DOMAIN d |-> Node(d[j].tag, Strip(d[j].text), d[j].parent)]


\* -------------------------------------------------------------- requests
Modules == {"xml_parser", "backup_xml_parser"}

\* parent_tag, filter_tag, filter_value, filter_parent_path of a call of
\* process_files; "" and <<>> stand for None
FilterSpec(parent_tag, filter_tag, filter_value, filter_parent_path) ==
  [parent_tag |-> parent_tag, filter_tag |-> filter_tag,
   filter_value |-> filter_value, filter_parent_path |-> filter_parent_path]

FilterSpecs ==
  { FilterSpec("", "", <<>>, <<>>),
    FilterSpec("infNFCom", "xNome", V, <<>>),
    FilterSpec("infNFCom", "xNome", V, <<"dest">>),
    FilterSpec("infNFCom", "xNome", V, <<"/", "dest", "/", "/">>),
    FilterSpec("infNFCom", "", <<>>, <<"dest">>),
    FilterSpec("", "xNome", V, <<>>),
    FilterSpec("infNFCom", "xNome", V, <<"/">>),
    FilterSpec("infNFCom", "xNome", V, <<"caminho", "/", "inexistente">>),
    FilterSpec("dest", "xNome", V, <<>>) }

ProcessRequests ==
  { [op |-> "process_files", module |-> m, tag_name |-> tag,
     parent_tag |-> fs.parent_tag, filter_tag |-> fs.filter_tag,
     filter_value |-> fs.filter_value, filter_parent_path |-> fs.filter_parent_path]
    : m \in Modules, tag \in {"nNF", "UF"}, fs \in FilterSpecs }
  \cup
  { [op |-> "process_files", module |-> m, tag_name |-> "Fatura",
     parent_tag |-> "", filter_tag |-> "", filter_value |-> <<>>,
     filter_parent_path |-> <<>>] : m \in Modules }

\* numero_lote: a plain number and one with a markup character
BatchNumbers == { <<"430">>, <<"4", "<">> }
Markup == {"<", "&", "\""}

UfRequests ==
  { [op |-> "consolidate_faturas_by_uf", module |-> "backup_xml_parser",
     target_uf |-> uf, numero_lote |-> n]
    : uf \in { <<"SP">>, <<"sp">> }, n \in BatchNumbers }

\* is_filtering with `or` in the place of `and`
IsFilteringOnAny(r) == r.parent_tag # "" \/ r.filter_tag # "" \/ r.filter_value # <<>>

\* is_filtering = bool(parent_tag and filter_tag and filter_value)
IsFiltering(r) == r.parent_tag # "" /\ r.filter_tag # "" /\ r.filter_value # <<>>

DescriptionPart(label, value) == [label |-> label, value |-> value]

\* filter_description
FilterDescription(r) ==
  IF IsFiltering(r)
  THEN (IF r.parent_tag # "" THEN << DescriptionPart("Contexto", <<r.parent_tag>>) >>
        ELSE <<>>)
       \o (IF r.filter_tag # "" THEN << DescriptionPart("Tag Filtro", <<r.filter_tag>>) >>
           ELSE <<>>)
       \o (IF r.filter_parent_path # <<>>
           THEN << DescriptionPart("Caminho Filtro", r.filter_parent_path) >> ELSE <<>>)
       \o (IF r.filter_value # <<>>
           THEN << DescriptionPart("Valor Filtro", r.filter_value) >> ELSE <<>>)
  ELSE << DescriptionPart("Nenhum", <<>>) >>

\* one ResultRecord
ResultRecord(r, f, value, count) ==
  [Nome_do_Arquivo |-> f.name, TAG |-> r.tag_name, Filtro |-> FilterDescription(r),
   Valor |-> value, Ocorrencia |-> count]

\* the prior results handed to consolidate_faturas_by_result
PriorRecord(value, count) ==
  [Nome_do_Arquivo |-> "faturas.xml", TAG |-> "nNF",
   Filtro |-> << DescriptionPart("Nenhum", <<>>) >>, Valor |-> value, Ocorrencia |-> count]

\* a record of an extraction of UF
PriorUfRecord(value, count) ==
  [Nome_do_Arquivo |-> "faturas.xml", TAG |-> "UF",
   Filtro |-> << DescriptionPart("Nenhum", <<>>) >>, Valor |-> value, Ocorrencia |-> count]

PriorResults ==
  { <<>>,
    << PriorRecord(<<"1001">>, 1) >>,
    << PriorRecord(NENHUM_VALOR, 0) >>,
    << PriorUfRecord(<<"sp">>, 1), PriorUfRecord(<<"RJ">>, 1) >> }

ResultRequests ==
  { [op |-> "consolidate_faturas_by_result", module |-> "xml_parser",
     results |-> rs, numero_lote |-> n]
    : rs \in PriorResults, n \in BatchNumbers }

\* the tag handed to iterparse
IterTag(r) ==
  IF r.op # "process_files" THEN "Fatura"
  ELSE IF ~IsFiltering(r) THEN r.tag_name
  ELSE IF r.module = "xml_parser" THEN "Fatura"
  ELSE r.parent_tag

\* the sources that stand in lists of several files: a good file among
\* sources of every kind of failure
BatchSources ==
  { f \in FixtureSources :
      f.name \in {"faturas.xml", "prolog.xml", "notarget.xml", "missing.xml", "broken",
                  "truncated.xml"} }

\* every fixture on its own, and the lists of batch sources
FixtureLists ==
  { <<f>> : f \in FixtureSources } \cup ListsUpTo(BatchSources, MaxFiles)

\* the file lists of a call: lists of fixture sources, and for the plain
\* extraction of nNF every generated document on its own
FileLists(r) ==
  FixtureLists
  \cup (IF /\ r.op = "process_files" /\ r.module = "xml_parser" /\ r.tag_name = "nNF"
           /\ r.parent_tag = "" /\ r.filter_tag = ""
        THEN { <<g>> : g \in GenSources } ELSE {})

\* tag_data of process_files: None, or a counter
NoTagData == [isNone |-> TRUE, items |-> <<>>]
TagData(c) == [isNone |-> FALSE, items |-> c]


\* ------------------------------------------------------------------ state
VARIABLES
  pc,                       \* "idle", "files" (top of the loop over the files),
                            \* "walk" (in the loop over the end events),
                            \* "done" (returned), "raised" (an exception left the call)
  req,                      \* the call and its arguments
  files,                    \* its list of sources
  fi,                       \* position of the loop over files
  tree,                     \* the element tree of the file being walked
  ev,                       \* the end events still to come
  delivered,                \* how many end events the loop has seen
  counter,                  \* tag_values_counter / target_values_counter
  tag_data,                 \* tag_data of process_files
  results,                  \* results of process_files
  matching_fatura_strings,  \* of the consolidators
  fatura_count,             \* of the consolidators
  ret,                      \* the value returned
  handles,                  \* the uploaded handle of each source: position, closed
  previous                  \* what the call before this one returned, same arguments

vars ==
  << pc, req, files, fi, tree, ev, delivered, counter, tag_data, results,
     matching_fatura_strings, fatura_count, ret, handles, previous >>

NoRequest == [op |-> "none"]
NoReturn == [kind |-> "none"]

Init ==
  /\ pc = "idle"
  /\ req = NoRequest
  /\ files = <<>>
  /\ fi = 0
  /\ tree = <<>>
  /\ ev = <<>>
  /\ delivered = 0
  /\ counter = <<>>
  /\ tag_data = NoTagData
  /\ results = <<>>
  /\ matching_fatura_strings = <<>>
  /\ fatura_count = 0
  /\ ret = NoReturn
  /\ handles = <<>>
  /\ previous = NoReturn

walkVars == << tree, ev, delivered, counter >>
callVars == << handles, previous >>

\* the handle of a source as the caller passes it: open, at the position
\* where its last reader left it
FreshHandle(f) == [pos |-> Len(f.doc), closed |-> FALSE]

\* seek(0) and getvalue() raise ValueError on a closed handle
HandleRaises(f, h) == f.kind = "broken" \/ (f.kind = "buffer" /\ h.closed)

\* the handle closed once it was read
SeekAndClose(f, h) == IF f.kind = "buffer" THEN [pos |-> 0, closed |-> TRUE] ELSE h

\* uploaded_file.seek(0); io.BytesIO(uploaded_file.getvalue()): the handle
\* is rewound and stays open (the finally clause closes the copy); a path
\* has no handle
SeekAndGetvalue(f, h) == IF f.kind = "buffer" THEN [h EXCEPT !.pos = 0] ELSE h
batchVars == << matching_fatura_strings, fatura_count >>

\* a call enters its loop over the files
Enter(r, fl) ==
  /\ req' = r
  /\ files' = fl
  /\ fi' = 1
  /\ pc' = "files"
  /\ results' = <<>>
  /\ matching_fatura_strings' = <<>>
  /\ fatura_count' = 0
  /\ handles' = [i \in DOMAIN fl |-> FreshHandle(fl[i])]
  /\ previous' = NoReturn
  /\ UNCHANGED << walkVars, tag_data, ret >>

AtFile(op) == pc = "files" /\ req.op = op /\ fi <= Len(files)
InWalk(op) == pc = "walk" /\ req.op = op

\* iterparse raises instead of giving the next element
IteratorRaises ==
  files[fi].err # "none" /\ (delivered = files[fi].at \/ ev = <<>>)

\* the extractor goes on with the counter of the file before
OpenWalkOnSharedCounter ==
  /\ pc' = "walk"
  /\ tree' = ParseTree(files[fi].doc)
  /\ ev' = EndEvents(files[fi].doc, IterTag(req))
  /\ delivered' = 0
  /\ counter' = tag_data.items

\* the source is opened and iterparse is set up
OpenWalk ==
  /\ pc' = "walk"
  /\ tree' = ParseTree(files[fi].doc)
  /\ ev' = EndEvents(files[fi].doc, IterTag(req))
  /\ delivered' = 0
  /\ counter' = <<>>

\* the loop over the end events is left
CloseWalk ==
  /\ pc' = "files"
  /\ fi' = fi + 1
  /\ tree' = <<>>
  /\ ev' = <<>>
  /\ delivered' = 0
  /\ counter' = <<>>

\* ------------------------------------------------------- process_files
CallProcessFiles ==
  /\ pc = "idle"
  /\ \E r \in ProcessRequests : \E fl \in FileLists(r) : Enter(r, fl)

\* process_files is called again on the same sources, handed over as the
\* first call left them, with the same parameters
CallProcessFilesAgain ==
  /\ pc = "done" /\ req.op = "process_files"
  /\ previous = NoReturn
  /\ Len(files) <= MaxRepeat
  /\ previous' = ret
  /\ ret' = NoReturn
  /\ pc' = "files"
  /\ fi' = 1
  /\ results' = <<>>
  /\ tag_data' = NoTagData
  /\ UNCHANGED << req, files, walkVars, batchVars, handles >>

\* the placeholders reported with one occurrence
ReportCountingPlaceholders(r, f, td) ==
  IF td.isNone THEN << ResultRecord(r, f, ERRO_AO_PROCESSAR, 1) >>
  ELSE IF td.items = <<>> THEN << ResultRecord(r, f, NENHUM_VALOR, 1) >>
  ELSE [k \in DOMAIN td.items |->
          ResultRecord(r, f, td.items[k].value, td.items[k].count)]

\* the records process_files appends for one file from its tag_data
Report(r, f, td) ==
  IF td.isNone THEN << ResultRecord(r, f, ERRO_AO_PROCESSAR, 0) >>
  ELSE IF td.items = <<>> THEN << ResultRecord(r, f, NENHUM_VALOR, 0) >>
  ELSE [k \in DOMAIN td.items |->
          ResultRecord(r, f, td.items[k].value, td.items[k].count)]

\* neither getvalue() nor an existing path: [ARQUIVO INVALIDO], continue
ProcessInvalidSource ==
  /\ AtFile("process_files")
  /\ files[fi].kind = "invalid"
  /\ tag_data' = NoTagData
  /\ results' = Append(results, ResultRecord(req, files[fi], ARQUIVO_INVALIDO, 0))
  /\ fi' = fi + 1
  /\ UNCHANGED << pc, req, files, walkVars, batchVars, ret, callVars >>

\* uploaded_file.seek(0) raises: the except clause of process_files
ProcessSeekRaises ==
  /\ AtFile("process_files")
  /\ HandleRaises(files[fi], handles[fi])
  /\ tag_data' = NoTagData
  /\ results' = Append(results, ResultRecord(req, files[fi], ERRO_INESPERADO, 0))
  /\ fi' = fi + 1
  /\ UNCHANGED << pc, req, files, walkVars, batchVars, ret, callVars >>

\* the extractor is called on a readable source
ProcessOpen ==
  /\ AtFile("process_files")
  /\ Readable(files[fi]) /\ ~HandleRaises(files[fi], handles[fi])
  /\ handles' = [handles EXCEPT ![fi] = SeekAndGetvalue(files[fi], @)]
  /\ OpenWalk
  /\ tag_data' = NoTagData
  /\ UNCHANGED << req, files, fi, results, batchVars, ret, previous >>

\* the extractor returns td and process_files reports it
ExtractorReturns(td) ==
  /\ tag_data' = td
  /\ results' = results \o Report(req, files[fi], td)
  /\ CloseWalk
  /\ UNCHANGED << req, files, batchVars, ret, callVars >>

WalkOn(w) ==
  /\ tree' = w.tree
  /\ counter' = w.counter
  /\ ev' = Tail(ev)
  /\ delivered' = delivered + 1
  /\ UNCHANGED << pc, req, files, fi, tag_data, results, batchVars, ret, callVars >>

\* one turn of the loop of extract_tag_data; when the body raises, the
\* except clause returns None
ExtractTagDataStep ==
  /\ InWalk("process_files")
  /\ ~IsFiltering(req)
  /\ ev # <<>> /\ ~IteratorRaises
  /\ LET w == ExtractTagDataBody(tree, counter, Head(ev))
     IN  IF w.exc THEN ExtractorReturns(NoTagData) ELSE WalkOn(w)

\* one turn of the loop of xml_parser.extract_filtered_tag_data; when the
\* body raises, the except clause returns None
ExtractFilteredStep ==
  /\ InWalk("process_files")
  /\ IsFiltering(req) /\ req.module = "xml_parser"
  /\ ev # <<>> /\ ~IteratorRaises
  /\ LET w == ExtractFilteredBody(tree, counter, Head(ev), req)
     IN  IF w.exc THEN ExtractorReturns(NoTagData) ELSE WalkOn(w)

\* one turn of the loop of backup_xml_parser.extract_filtered_tag_data
ExtractFilteredBackupStep ==
  /\ InWalk("process_files")
  /\ IsFiltering(req) /\ req.module = "backup_xml_parser"
  /\ ev # <<>> /\ ~IteratorRaises
  /\ LET w == ExtractFilteredBackupBody(tree, counter, Head(ev), req)
     IN  IF w.exc THEN ExtractorReturns(NoTagData) ELSE WalkOn(w)

\* the extractor without its except clauses: the exception leaves the call
ExtractorRaisesUncaught ==
  /\ InWalk("process_files")
  /\ IteratorRaises
  /\ pc' = "raised"
  /\ UNCHANGED << req, files, fi, walkVars, tag_data, results, batchVars, ret, callVars >>

\* iterparse raises: the except clauses of the extractor return None
ExtractorRaises ==
  /\ InWalk("process_files")
  /\ IteratorRaises
  /\ ExtractorReturns(NoTagData)

\* the loop ends: the extractor returns its counter
ExtractorEnds ==
  /\ InWalk("process_files")
  /\ ev = <<>> /\ ~IteratorRaises
  /\ ExtractorReturns(TagData(counter))

\* return results
ProcessFilesReturn ==
  /\ pc = "files" /\ req.op = "process_files" /\ fi > Len(files)
  /\ ret' = [kind |-> "results", results |-> results]
  /\ pc' = "done"
  /\ UNCHANGED << req, files, fi, walkVars, tag_data, results, batchVars, callVars >>


\* ------------------------------------------------------- consolidation
Consolidating == req.op \in {"consolidate_faturas_by_uf", "consolidate_faturas_by_result"}

CallConsolidateByUf ==
  /\ pc = "idle"
  /\ \E r \in UfRequests : \E fl \in FixtureLists : Enter(r, fl)

\* target_tag = results[0]["TAG"] raises IndexError on an empty list
CallConsolidateByResult ==
  /\ pc = "idle"
  /\ \E r \in ResultRequests : \E fl \in FixtureLists :
    IF r.results = <<>>
    THEN /\ req' = r
         /\ files' = fl
         /\ pc' = "raised"
         /\ UNCHANGED << fi, walkVars, tag_data, results, batchVars, ret, callVars >>
    ELSE Enter(r, fl)

\* an invalid source: continue
ConsolidateInvalidSource ==
  /\ pc = "files" /\ Consolidating /\ fi <= Len(files)
  /\ files[fi].kind = "invalid"
  /\ fi' = fi + 1
  /\ UNCHANGED << pc, req, files, walkVars, tag_data, results, batchVars, ret, callVars >>

\* uploaded_file.seek(0) raises: except Exception, continue
ConsolidateSeekRaises ==
  /\ pc = "files" /\ Consolidating /\ fi <= Len(files)
  /\ HandleRaises(files[fi], handles[fi])
  /\ fi' = fi + 1
  /\ UNCHANGED << pc, req, files, walkVars, tag_data, results, batchVars, ret, callVars >>

ConsolidateOpen ==
  /\ pc = "files" /\ Consolidating /\ fi <= Len(files)
  /\ Readable(files[fi]) /\ ~HandleRaises(files[fi], handles[fi])
  /\ handles' = [handles EXCEPT ![fi] = SeekAndGetvalue(files[fi], @)]
  /\ OpenWalk
  /\ UNCHANGED << req, files, fi, tag_data, results, batchVars, ret, previous >>

uf_xpath_options ==
  << <<"infNFCom", "/", "emit", "/", "enderEmit", "/", "UF">>,
     <<"emit", "/", "enderEmit", "/", "UF">>,
     <<"dest", "/", "enderDest", "/", "UF">>,
     <<"UF">> >>

\* the loop over uf_xpath_options: how many times the record is appended
\* (the loop breaks at the first option that matches)
RECURSIVE UfOptionLoop(_, _, _, _)
UfOptionLoop(t, e, target_uf, options) ==
  IF options = <<>> THEN 0
  ELSE LET uf_elements == InOrder(XPathDescendant(t, e, Head(options)))
       IN  IF /\ uf_elements # <<>>
              /\ t[uf_elements[1]].text # None
              /\ Upper(Strip(t[uf_elements[1]].text)) = Upper(target_uf)
           THEN 1
           ELSE UfOptionLoop(t, e, target_uf, Tail(options))

\* fatura_elem.findtext(".//{*}" + target_tag): the text of the first
\* descendant of that local name in any namespace; None when no element is
\* found, "" when the element found has no text (both are false)
FindText(t, e, target_tag) ==
  LET S == { j \in Descendants(t, e) : LocalName(t[j].tag) = target_tag }
  IN  IF S = {} THEN None ELSE t[InOrder(S)[1]].text

\* expected_values = set(values_items_search.keys())
ExpectedValues(rs) == { rs[k].Valor : k \in DOMAIN rs }

\* the condition under which consolidate_faturas_by_result appends
ResultMatch(t, e, rs) ==
  LET target_text == FindText(t, e, rs[1].TAG)
  IN  target_text # None /\ Upper(Strip(target_text)) \in ExpectedValues(rs)

\* fatura_count += 1 outside the if: every record is counted
ConsolidateBodyCountingAll(t, e, n) ==
  [strings |-> [k \in 1..n |-> Serialize(t, e)],
   count |-> 1,
   tree |-> PrunePrevious(Clear(t, e), e),
   exc |-> PruneRaises(t, e)]

\* the body of the loop over the Fatura elements: n copies are appended,
\* then the element is cleared and pruned; exc: the pruning loop raised
ConsolidateBody(t, e, n) ==
  [strings |-> [k \in 1..n |-> Serialize(t, e)],
   count |-> n,
   tree |-> PrunePrevious(Clear(t, e), e),
   exc |-> PruneRaises(t, e)]

\* when the body raises, the except clause continues with the next file
ConsolidateOn(b) ==
  /\ matching_fatura_strings' = matching_fatura_strings \o b.strings
  /\ fatura_count' = fatura_count + b.count
  /\ IF b.exc
     THEN /\ CloseWalk
          /\ UNCHANGED << req, files, tag_data, results, ret, callVars >>
     ELSE /\ tree' = b.tree
          /\ ev' = Tail(ev)
          /\ delivered' = delivered + 1
          /\ UNCHANGED << pc, req, files, fi, counter, tag_data, results, ret, callVars >>

\* one turn of the loop of consolidate_faturas_by_uf
ConsolidateUfStep ==
  /\ InWalk("consolidate_faturas_by_uf")
  /\ ev # <<>> /\ ~IteratorRaises
  /\ ConsolidateOn(ConsolidateBody(tree, Head(ev),
                     UfOptionLoop(tree, Head(ev), req.target_uf, uf_xpath_options)))

\* one turn of the loop of consolidate_faturas_by_result
ConsolidateResultStep ==
  /\ InWalk("consolidate_faturas_by_result")
  /\ ev # <<>> /\ ~IteratorRaises
  /\ ConsolidateOn(ConsolidateBody(tree, Head(ev),
                     IF ResultMatch(tree, Head(ev), req.results) THEN 1 ELSE 0))

\* iterparse raises: the except clauses continue with the next file and
\* leave matching_fatura_strings and fatura_count as they are
ConsolidateRaises ==
  /\ pc = "walk" /\ Consolidating
  /\ IteratorRaises
  /\ CloseWalk
  /\ UNCHANGED << req, files, tag_data, results, batchVars, ret, callVars >>

\* the loop over the Fatura elements ends
ConsolidateFileEnds ==
  /\ pc = "walk" /\ Consolidating
  /\ ev = <<>> /\ ~IteratorRaises
  /\ CloseWalk
  /\ UNCHANGED << req, files, tag_data, results, batchVars, ret, callVars >>

\* ---- the batch document
\* datetime.now().strftime(...)
data_criacao == <<"2025-01-01T00:00:00">>

\* a document: `decl` XML declarations, the root loteNFCom with its three
\* attributes, and the record fragments of its body
Lote(decl, numero_lote, quantidade, body, normalized) ==
  [decl |-> decl, root |-> "loteNFCom", NUMERO_LOTE |-> numero_lote,
   DATA_CRIACAO |-> data_criacao, QUANTIDADE_NFCOM_NO_LOTE |-> quantidade,
   body |-> body, normalized |-> normalized]

\* xml_header + "\n".join(matching_fatura_strings) + xml_footer
Concatenation(numero_lote, count, strings) == Lote(0, numero_lote, count, strings, FALSE)

\* etree.fromstring accepts the concatenation: the attribute value written
\* from numero_lote holds no markup character
Parses(x) == \A k \in DOMAIN x.NUMERO_LOTE : x.NUMERO_LOTE[k] \notin Markup

\* consolidated_xml.strip().startswith("<?xml")
StartsWithDeclaration(x) == x.decl > 0

\* the test of the except branch inverted
WithDeclarationInverted(x) ==
  IF StartsWithDeclaration(x) THEN [x EXCEPT !.decl = @ + 1] ELSE x

\* the except branch: the declaration is put in front unless one is there
WithDeclaration(x) == IF ~StartsWithDeclaration(x) THEN [x EXCEPT !.decl = @ + 1] ELSE x

\* fromstring with remove_blank_text, then tostring with pretty_print and
\* xml_declaration
Normalized(x) ==
  [x EXCEPT !.decl = 1, !.normalized = TRUE,
            !.body = [k \in DOMAIN x.body |->
                        Serialize(ParseTree(ParseNoBlanks(x.body[k])), 1)]]

AtAssembly == pc = "files" /\ Consolidating /\ fi > Len(files)

Return(xml, count) ==
  /\ ret' = [kind |-> "batch", xml |-> xml, count |-> count]
  /\ pc' = "done"
  /\ UNCHANGED << req, files, fi, walkVars, tag_data, results, batchVars, callVars >>

\* fatura_count = 0: the empty batch
AssembleEmpty ==
  /\ AtAssembly
  /\ fatura_count = 0
  /\ Return(Lote(1, req.numero_lote, 0, <<>>, FALSE), 0)

\* the try block succeeds
AssembleNormalized ==
  /\ AtAssembly
  /\ fatura_count > 0
  /\ Parses(Concatenation(req.numero_lote, fatura_count, matching_fatura_strings))
  /\ Return(Normalized(Concatenation(req.numero_lote, fatura_count,
                                     matching_fatura_strings)), fatura_count)

\* the try block raises (fromstring on a string that does not parse, or
\* tostring refusing its arguments): the except branch
AssembleFallback ==
  /\ AtAssembly
  /\ fatura_count > 0
  /\ Return(WithDeclaration(Concatenation(req.numero_lote, fatura_count,
                                          matching_fatura_strings)), fatura_count)

Next ==
  \/ CallProcessFilesAgain
  \/ CallProcessFiles
  \/ ProcessInvalidSource
  \/ ProcessSeekRaises
  \/ ProcessOpen
  \/ ExtractTagDataStep
  \/ ExtractFilteredStep
  \/ ExtractFilteredBackupStep
  \/ ExtractorRaises
  \/ ExtractorEnds
  \/ ProcessFilesReturn
  \/ CallConsolidateByUf
  \/ CallConsolidateByResult
  \/ ConsolidateInvalidSource
  \/ ConsolidateSeekRaises
  \/ ConsolidateOpen
  \/ ConsolidateUfStep
  \/ ConsolidateResultStep
  \/ ConsolidateRaises
  \/ ConsolidateFileEnds
  \/ AssembleEmpty
  \/ AssembleNormalized
  \/ AssembleFallback

Spec == Init /\ [][Next]_vars


\* ------------------------------------------------- the path resolver alone
\* the raw strings handed over as filter_parent_path
PathSymbols == {"/", "dest", "enderDest"}

RECURSIVE PathsOfLen(_)
PathsOfLen(n) ==
  IF n = 0 THEN { <<>> }
  ELSE { Append(p, c) : p \in PathsOfLen(n - 1), c \in PathSymbols }

RawPaths == UNION { PathsOfLen(n) : n \in 0..MaxPath }

ResolveRequests ==
  { [op |-> "resolve", filter_parent_path |-> p, filter_tag |-> leaf]
    : p \in RawPaths, leaf \in {"xNome", "UF"} }

ResolveInit ==
  /\ pc = "resolve"
  /\ req \in ResolveRequests
  /\ files = <<>>
  /\ fi = 0
  /\ tree = <<>>
  /\ ev = <<>>
  /\ delivered = 0
  /\ counter = <<>>
  /\ tag_data = NoTagData
  /\ results = <<>>
  /\ matching_fatura_strings = <<>>
  /\ fatura_count = 0
  /\ ret = NoReturn
  /\ handles = <<>>
  /\ previous = NoReturn

\* lines 49-55 of extract_filtered_tag_data, on their own
Resolve ==
  /\ pc = "resolve"
  /\ pc' = "resolved"
  /\ ret' = [kind |-> "path",
             xpath_filter_tag |-> ResolvePath(req.filter_parent_path, req.filter_tag)]
  /\ UNCHANGED << req, files, fi, walkVars, tag_data, results, batchVars, callVars >>

ResolveNext == Resolve

SpecResolve == ResolveInit /\ [][ResolveNext]_vars

\* ---------------------------------------------------------- format_uf
\* the table of format_uf, in the order of the source; a code is the
\* sequence of its characters
ufs ==
  << [code |-> <<"1", "1">>, uf |-> "RO"],
     [code |-> <<"1", "2">>, uf |-> "AC"],
     [code |-> <<"1", "6">>, uf |-> "AP"],
     [code |-> <<"2", "8">>, uf |-> "SE"],
     [code |-> <<"2", "9">>, uf |-> "BA"],
     [code |-> <<"3", "1">>, uf |-> "MG"],
     [code |-> <<"3", "2">>, uf |-> "ES"],
     [code |-> <<"3", "3">>, uf |-> "RJ"],
     [code |-> <<"3", "5">>, uf |-> "SP"],
     [code |-> <<"4", "1">>, uf |-> "PR"],
     [code |-> <<"4", "2">>, uf |-> "SC"],
     [code |-> <<"4", "3">>, uf |-> "RS"],
     [code |-> <<"5", "0">>, uf |-> "MS"],
     [code |-> <<"5", "1">>, uf |-> "MT"],
     [code |-> <<"5", "2">>, uf |-> "GO"],
     [code |-> <<"5", "3">>, uf |-> "DF"],
     [code |-> <<"1", "3">>, uf |-> "AM"],
     [code |-> <<"1", "4">>, uf |-> "RR"],
     [code |-> <<"1", "5">>, uf |-> "PA"],
     [code |-> <<"1", "7">>, uf |-> "TO"],
     [code |-> <<"2", "1">>, uf |-> "MA"],
     [code |-> <<"2", "2">>, uf |-> "PI"],
     [code |-> <<"2", "3">>, uf |-> "CE"],
     [code |-> <<"2", "4">>, uf |-> "RN"],
     [code |-> <<"2", "5">>, uf |-> "PB"],
     [code |-> <<"2", "6">>, uf |-> "PE"],
     [code |-> <<"2", "7">>, uf |-> "AL"] >>

\* format_uf that hands back what it does not know
format_uf_passthrough(value) ==
  IF \E k \in DOMAIN ufs : ufs[k].code = value
  THEN ufs[CHOOSE k \in DOMAIN ufs : ufs[k].code = value].uf
  ELSE value

\* if value in ufs: return ufs[value]; return ""
format_uf(value) ==
  IF \E k \in DOMAIN ufs : ufs[k].code = value
  THEN ufs[CHOOSE k \in DOMAIN ufs : ufs[k].code = value].uf
  ELSE ""

\* the values handed to format_uf: strings of digits and blanks
CodeSymbols == {"0", "1", "2", "3", "4", "5", "6", "7", "8", "9", " "}

RECURSIVE CodesOfLen(_)
CodesOfLen(n) ==
  IF n = 0 THEN { <<>> }
  ELSE { Append(v, c) : v \in CodesOfLen(n - 1), c \in CodeSymbols }

CodeInputs == UNION { CodesOfLen(n) : n \in 0..MaxCode }

FormatUfInit ==
  /\ pc = "format_uf"
  /\ req \in { [op |-> "format_uf", value |-> v] : v \in CodeInputs }
  /\ files = <<>>
  /\ fi = 0
  /\ tree = <<>>
  /\ ev = <<>>
  /\ delivered = 0
  /\ counter = <<>>
  /\ tag_data = NoTagData
  /\ results = <<>>
  /\ matching_fatura_strings = <<>>
  /\ fatura_count = 0
  /\ ret = NoReturn
  /\ handles = <<>>
  /\ previous = NoReturn

FormatUf ==
  /\ pc = "format_uf"
  /\ pc' = "formatted"
  /\ ret' = [kind |-> "uf", value |-> format_uf(req.value)]
  /\ UNCHANGED << req, files, fi, walkVars, tag_data, results, batchVars, callVars >>

FormatUfNext == FormatUf

SpecFormatUf == FormatUfInit /\ [][FormatUfNext]_vars

\* =============================================================== claims
PlaceholderValues == {ARQUIVO_INVALIDO, NENHUM_VALOR, ERRO_AO_PROCESSAR, ERRO_INESPERADO}

\* process_files has just finished its file number fi - 1, a readable
\* source whose parse raises nothing; tag_data is what the extractor returned
FileDone ==
  /\ req.op = "process_files"
  /\ pc \in {"files", "done"}
  /\ fi > 1
  /\ Good(files[fi - 1])

LastDoc == files[fi - 1].doc

Named(d, tag) == { i \in DOMAIN d : d[i].tag = tag }

\* ---- C1
\* C1: for every document and tag, extract_tag_data returns a counter whose
\* counts sum to the number of elements of that tag (nested ones included)
\* and whose keys are exactly the distinct trimmed texts of those elements,
\* each key once, missing and whitespace-only text being the key "".
C1_ExtractCounts ==
  (FileDone /\ ~IsFiltering(req)) =>
    LET T == Named(LastDoc, req.tag_name)
        c == tag_data.items
    IN  /\ ~tag_data.isNone
        /\ CounterSum(c) = Cardinality(T)
        /\ CounterKeys(c) = { Strip(LastDoc[i].text) : i \in T }
        /\ \A j, k \in DOMAIN c : c[j].value = c[k].value => j = k
        /\ \A k \in DOMAIN c : c[k].count >= 1

\* ---- C2
\* the contexts of document d that the request r selects and the counter
\* the claim expects, read off the document as it was parsed
MatchingContexts(d, r) ==
  { i \in Named(d, r.parent_tag) :
      FilterMatch(ParseTree(d), i, r.filter_tag, r.filter_value, r.filter_parent_path) }

ExpectedCount(d, r, v) ==
  Cardinality({ i \in MatchingContexts(d, r) : TargetValue(ParseTree(d), i, r.tag_name) = v })

ExpectedValuesOf(d, r) ==
  { TargetValue(ParseTree(d), i, r.tag_name) : i \in MatchingContexts(d, r) }

\* C2: filtered extraction through process_files returns, for every
\* document, exactly one record per distinct target value of the context
\* blocks whose path/filter element equals the filter value, counted once
\* per matching block, and nothing from the other blocks.
C2_FilteredExact ==
  (FileDone /\ IsFiltering(req) /\ req.filter_parent_path # <<>>) =>
    /\ ~tag_data.isNone
    /\ CounterKeys(tag_data.items) = ExpectedValuesOf(LastDoc, req)
    /\ \A k \in DOMAIN tag_data.items :
         tag_data.items[k].count = ExpectedCount(LastDoc, req, tag_data.items[k].value)

\* ---- C3
\* the placeholder of a source that is invalid, whose handle faults or
\* whose parse raises
ErrorSentinel(f) ==
  IF f.kind = "invalid" THEN ARQUIVO_INVALIDO
  ELSE IF f.kind = "broken" THEN ERRO_INESPERADO
  ELSE ERRO_AO_PROCESSAR

\* rs is one non-empty block of records per file of fs, in order: the one
\* placeholder of a source that is not Good; for a Good source one
\* placeholder of count 0 (nothing found, or the walk faulted) or counted
\* records
RECURSIVE Blocks(_, _)
Blocks(rs, fs) ==
  IF fs = <<>> THEN rs = <<>>
  ELSE LET f == Head(fs)
       IN  IF ~Good(f)
           THEN /\ rs # <<>>
                /\ rs[1].Nome_do_Arquivo = f.name
                /\ rs[1].Valor = ErrorSentinel(f)
                /\ rs[1].Ocorrencia = 0
                /\ Blocks(Tail(rs), Tail(fs))
           ELSE \E n \in 1..Len(rs) :
                  /\ \A k \in 1..n : rs[k].Nome_do_Arquivo = f.name
                  /\ \/ /\ n = 1
                        /\ rs[1].Valor \in {NENHUM_VALOR, ERRO_AO_PROCESSAR}
                        /\ rs[1].Ocorrencia = 0
                     \/ \A k \in 1..n : rs[k].Ocorrencia >= 1
                  /\ Blocks(SubSeq(rs, n + 1, Len(rs)), Tail(fs))

C4_EverySentinelZero ==
  \A k \in DOMAIN results :
    results[k].Valor \in PlaceholderValues \cup {TARGET_ABSENT} => results[k].Ocorrencia = 0

\* C4 amended: the placeholders process_files substitutes for a file
\* (invalid source, extraction failed, unexpected error, nothing found)
\* carry the count 0; every other record, the target-absent sentinel of the
\* filter extractor included, carries a count of at least 1.
C4_PlaceholdersZero ==
  \A k \in DOMAIN results :
    /\ results[k].Valor \in PlaceholderValues => results[k].Ocorrencia = 0
    /\ results[k].Valor \notin PlaceholderValues => results[k].Ocorrencia >= 1

\* a result with a placeholder of count 0 and the counted target-absent sentinel
C4_Witness ==
  /\ pc = "done"
  /\ \E j, k \in DOMAIN results :
       /\ results[j].Valor = NENHUM_VALOR /\ results[j].Ocorrencia = 0
       /\ results[k].Valor = TARGET_ABSENT /\ results[k].Ocorrencia = 1

\* ---- C5
\* nothing in document d answers the request r
NothingToFind(d, r) ==
  IF IsFiltering(r) THEN MatchingContexts(d, r) = {} ELSE Named(d, r.tag_name) = {}

\* C5: on a well-formed document the extractor never returns None, and when
\* no element has the tag or no context satisfies the filter it returns an
\* empty counter, reported as the single no-match placeholder.
C5_EmptyNotNone ==
  FileDone =>
    /\ ~tag_data.isNone
    /\ results[Len(results)].Valor # ERRO_AO_PROCESSAR
    /\ NothingToFind(LastDoc, req) =>
         /\ tag_data.items = <<>>
         /\ results[Len(results)] = ResultRecord(req, files[fi - 1], NENHUM_VALOR, 0)


\* ---- C6
Returned == pc = "done" /\ Consolidating /\ ret.kind = "batch"

\* the empty batch: one declaration, the root loteNFCom, count 0, no body
EmptyBatch(x) ==
  /\ x.decl = 1
  /\ x.root = "loteNFCom"
  /\ x.QUANTIDADE_NFCOM_NO_LOTE = 0
  /\ x.body = <<>>

\* C6: whenever consolidation selects no record, in either mode and for any
\* file list or prior result sequence (an empty one included), the call
\* returns without raising the pair (empty loteNFCom document, 0).
C6_EmptyBatch ==
  Consolidating =>
    /\ pc # "raised"
    /\ (pc = "done" /\ matching_fatura_strings = <<>>) =>
         /\ ret.kind = "batch"
         /\ ret.count = 0
         /\ EmptyBatch(ret.xml)

\* ---- C7
\* C7: after any consolidation call the returned record_count is the number
\* of record fragments in the returned document and the value of the root's
\* QUANTIDADE_NFCOM_NO_LOTE attribute.
C7_CountIsFragments ==
  /\ Consolidating => fatura_count = Len(matching_fatura_strings)
  /\ Returned =>
       /\ ret.count = Len(ret.xml.body)
       /\ ret.count = ret.xml.QUANTIDADE_NFCOM_NO_LOTE
       /\ ret.count = Len(matching_fatura_strings)

\* a batch of two files in which one record matched and others did not
C7_Witness ==
  /\ Returned
  /\ Len(files) = 2
  /\ ret.count = 1
  /\ \E k \in DOMAIN files : Good(files[k]) /\ Cardinality(Named(files[k].doc, "Fatura")) = 2

\* ---- C8
Last(q) == q[Len(q)]

\* C8: every record fragment of a batch re-parses to the tags and text of
\* the matched Fatura subtree of the source document, and the final
\* normalization pass neither drops nor alters a record.
C8_RoundTrip ==
  [][ /\ (Consolidating /\ Len(matching_fatura_strings') > Len(matching_fatura_strings)) =>
          Structure(Parse(Last(matching_fatura_strings')))
            = Structure(Subtree(files[fi].doc, Head(ev)))
      /\ (Consolidating /\ pc = "files" /\ pc' = "done") =>
          /\ Len(ret'.xml.body) = Len(matching_fatura_strings)
          /\ \A k \in DOMAIN matching_fatura_strings :
               Structure(Parse(ret'.xml.body[k]))
                 = Structure(Parse(matching_fatura_strings[k]))
    ]_vars

\* ---- C9
\* the fragments one file adds when its walk runs to its end, none when
\* the walk raises
RECURSIVE FileFragments(_, _, _, _)
FileFragments(t, es, r, acc) ==
  IF es = <<>> THEN acc
  ELSE LET n == IF r.op = "consolidate_faturas_by_uf"
                THEN UfOptionLoop(t, Head(es), r.target_uf, uf_xpath_options)
                ELSE IF ResultMatch(t, Head(es), r.results) THEN 1 ELSE 0
           b == ConsolidateBody(t, Head(es), n)
       IN  IF b.exc THEN <<>> ELSE FileFragments(b.tree, Tail(es), r, acc \o b.strings)

RECURSIVE CompletedFragments(_, _)
CompletedFragments(fs, r) ==
  IF fs = <<>> THEN <<>>
  ELSE (IF Good(Head(fs))
        THEN FileFragments(ParseTree(Head(fs).doc), EndEvents(Head(fs).doc, "Fatura"), r,
                           <<>>)
        ELSE <<>>)
       \o CompletedFragments(Tail(fs), r)

\* C9: consolidation skips a source that is unreadable or raises while
\* parsed; the count and the fragments returned come only from the files
\* whose processing completed (a file that fails part-way adds nothing).
C9_OnlyCompletedFiles ==
  Returned =>
    /\ matching_fatura_strings = CompletedFragments(files, req)
    /\ ret.count = Len(CompletedFragments(files, req))

\* ---- C10
\* C10: with at least one fragment collected, consolidation returns a
\* document and the unchanged count; when the normalization pass fails the
\* result is header + fragments + footer behind exactly one declaration;
\* either way the document starts with a single declaration.
C10_AlwaysReturns ==
  (Consolidating /\ pc = "done" /\ matching_fatura_strings # <<>>) =>
    LET concat == Concatenation(req.numero_lote, fatura_count, matching_fatura_strings)
    IN  /\ ret.kind = "batch"
        /\ ret.count = fatura_count
        /\ ret.xml.decl = 1
        /\ ~Parses(concat) => ~ret.xml.normalized
        /\ ~ret.xml.normalized => ret.xml = [concat EXCEPT !.decl = 1]

\* a batch whose concatenation does not parse, returned unnormalized
C10_Witness ==
  /\ Returned
  /\ ret.count = 2
  /\ ~Parses(ret.xml)
  /\ ~ret.xml.normalized
  /\ ret.xml.body = matching_fatura_strings

\* ---- C11
\* the first element named tag beneath element e of tree t, 0 when none
FirstNamed(t, e, tag) ==
  LET S == { i \in Descendants(t, e) : t[i].tag = tag }
  IN  IF S = {} THEN 0 ELSE CHOOSE i \in S : \A j \in S : i <= j

\* the accept-set as the claim has it: the prior values, uppercased
UppercasedAcceptSet(rs) == { Upper(rs[k].Valor) : k \in DOMAIN rs }

\* C11: in result-driven consolidation a Fatura record is included iff the
\* first target_tag element beneath it has trimmed, uppercased text in the
\* set of the prior values uppercased, so that a prior value in any letter
\* case selects the records it was extracted from.
C11_AcceptSetUppercased ==
  [][ (InWalk("consolidate_faturas_by_result") /\ ev # <<>> /\ delivered' = delivered + 1) =>
        LET e == Head(ev)
            first == FirstNamed(tree, e, req.results[1].TAG)
        IN  (Len(matching_fatura_strings') = Len(matching_fatura_strings) + 1)
              <=> /\ first # 0
                  /\ Upper(Strip(tree[first].text)) \in UppercasedAcceptSet(req.results)
    ]_vars

\* ---- C12
\* some element at a candidate path beneath e has the target UF
SomePathYields(t, e, target_uf) ==
  \E k \in DOMAIN uf_xpath_options :
    \E i \in XPathDescendant(t, e, uf_xpath_options[k]) :
      t[i].text # None /\ Upper(Strip(t[i].text)) = Upper(target_uf)

\* C12: in UF-filtered consolidation a Fatura record is selected iff at
\* least one candidate path yields an element whose trimmed, uppercased
\* text equals the uppercased target UF, and a selected record is
\* serialized exactly once.
C12_AnyPathSelects ==
  [][ (InWalk("consolidate_faturas_by_uf") /\ ev # <<>> /\ delivered' = delivered + 1) =>
        Len(matching_fatura_strings') - Len(matching_fatura_strings)
          = IF SomePathYields(tree, Head(ev), req.target_uf) THEN 1 ELSE 0
    ]_vars

\* ---- C13
\* the maximal runs of symbols other than "/" in a raw path
RECURSIVE SegmentsAcc(_, _, _)
SegmentsAcc(s, cur, acc) ==
  IF s = <<>> THEN (IF cur = <<>> THEN acc ELSE Append(acc, cur))
  ELSE IF Head(s) = "/"
       THEN SegmentsAcc(Tail(s), <<>>, IF cur = <<>> THEN acc ELSE Append(acc, cur))
       ELSE SegmentsAcc(Tail(s), Append(cur, Head(s)), acc)

Segments(s) == SegmentsAcc(s, <<>>, <<>>)

\* the segments joined by single separators
RECURSIVE Rejoined(_)
Rejoined(segs) ==
  IF segs = <<>> THEN <<>>
  ELSE IF Len(segs) = 1 THEN segs[1]
  ELSE segs[1] \o <<"/">> \o Rejoined(Tail(segs))

\* C13: for every raw path and leaf tag the resolver gives the non-empty
\* segments rejoined, then "/" and the leaf, or the leaf alone when no
\* segment is left; paths that differ only by leading, trailing or repeated
\* separators resolve alike, and resolving the clean path changes nothing.
C13_ResolverNormalizes ==
  pc = "resolved" =>
    LET raw == req.filter_parent_path
        leaf == req.filter_tag
        clean == Rejoined(Segments(raw))
    IN  /\ ret.xpath_filter_tag
             = IF clean # <<>> THEN clean \o <<"/", leaf>> ELSE <<leaf>>
        /\ \A other \in RawPaths :
             Segments(other) = Segments(raw) =>
               ResolvePath(other, leaf) = ret.xpath_filter_tag
        /\ ResolvePath(clean, leaf) = ret.xpath_filter_tag

\* "/dest//" with leaf UF has been resolved, to dest/UF
C13_Witness ==
  /\ pc = "resolved"
  /\ req.filter_parent_path = <<"/", "dest", "/", "/">>
  /\ req.filter_tag = "UF"
  /\ ret.xpath_filter_tag = <<"dest", "/", "UF">>

\* ---- C14
\* context tag, filter tag and filter value are all supplied
AllThree(r) == r.parent_tag # "" /\ r.filter_tag # "" /\ r.filter_value # <<>>

Nenhum == << DescriptionPart("Nenhum", <<>>) >>

\* C14: process_files filters iff context tag, filter tag and filter value
\* are all non-empty; otherwise it extracts tag_name from the whole
\* document, ignores the filter fields that were supplied and records the
\* filter description "Nenhum".
C14_FilterNeedsAllThree ==
  req.op = "process_files" =>
    /\ \A k \in DOMAIN results : (results[k].Filtro = Nenhum) <=> ~AllThree(req)
    /\ (pc = "walk" /\ delivered = 0 /\ ~AllThree(req)) =>
         ev = EndEvents(files[fi].doc, req.tag_name)
    /\ (pc = "walk" /\ delivered = 0 /\ AllThree(req)) =>
         \A k \in DOMAIN ev : tree[ev[k]].tag \in {req.parent_tag, "Fatura"}
    /\ (FileDone /\ ~AllThree(req) /\ ~tag_data.isNone) =>
         LET T == Named(LastDoc, req.tag_name)
         IN  /\ CounterSum(tag_data.items) = Cardinality(T)
             /\ CounterKeys(tag_data.items) = { Strip(LastDoc[i].text) : i \in T }

\* a request with a context tag and a path but no filter tag and value has
\* counted the nNF elements of the whole test document
C14_Witness ==
  /\ FileDone /\ req.parent_tag # "" /\ req.filter_parent_path # <<>> /\ ~AllThree(req)
  /\ files[fi - 1].name = "test.xml" /\ req.tag_name = "nNF"
  /\ Len(tag_data.items) = 4
  /\ results # <<>> /\ results[Len(results)].Filtro = Nenhum

\* ---- C15
\* a sequence without the repetitions of its earlier members
RECURSIVE DedupAcc(_, _)
DedupAcc(q, acc) ==
  IF q = <<>> THEN acc
  ELSE IF \E k \in DOMAIN acc : acc[k] = Head(q) THEN DedupAcc(Tail(q), acc)
  ELSE DedupAcc(Tail(q), Append(acc, Head(q)))

Dedup(q) == DedupAcc(q, <<>>)

\* the values of the block of records of the file just finished
LastBlockValues ==
  LET n == IF tag_data.isNone \/ tag_data.items = <<>> THEN 1 ELSE Len(tag_data.items)
  IN  [k \in 1..n |-> results[Len(results) - n + k].Valor]

\* the trimmed texts of the elements es of document d, in the order of es
TrimmedTexts(d, es) == [k \in DOMAIN es |-> Strip(d[es[k]].text)]

\* the target values of the matching contexts cs of document d
TargetValues(d, r, cs) ==
  [k \in DOMAIN cs |-> TargetValue(ParseTree(d), cs[k], r.tag_name)]

\* the distinct values of the file in the order in which its elements (its
\* matching contexts, when filtering) end
ValuesByEnd(d, r) ==
  IF AllThree(r)
  THEN Dedup(TargetValues(d, r, SelectSeq(EndEvents(d, r.parent_tag),
                                          LAMBDA i : i \in MatchingContexts(d, r))))
  ELSE Dedup(TrimmedTexts(d, EndEvents(d, r.tag_name)))

\* the distinct values of the file in the order in which they first stand
\* in the document
ValuesByStart(d, r) ==
  IF AllThree(r)
  THEN Dedup(TargetValues(d, r, InOrder(MatchingContexts(d, r))))
  ELSE Dedup(TrimmedTexts(d, InOrder(Named(d, r.tag_name))))

\* an element named tag lies inside another one
NestedIn(d, tag) == \E i, j \in Named(d, tag) : i < j /\ j <= LastOf(d, i)

\* the case in which the block of the last file consists of counted values
\* (the filter extractor of xml_parser, which walks Fatura, is left to C2,
\* and contexts that lie inside a context, which are emptied before the
\* outer one is examined, to C26)
CountedBlock ==
  /\ FileDone
  /\ ~tag_data.isNone /\ tag_data.items # <<>>
  /\ AllThree(req) => /\ req.module = "backup_xml_parser"
                       /\ ~NestedIn(LastDoc, req.parent_tag)

C16_SecondCallSame ==
  (req.op = "process_files" /\ pc = "done") =>
    /\ \A i \in DOMAIN files :
         files[i].kind = "buffer" => (~handles[i].closed /\ handles[i].pos = 0)
    /\ previous # NoReturn => ret = previous

\* the second call has returned, on a buffer that holds several values
C16_Witness ==
  /\ req.op = "process_files" /\ pc = "done"
  /\ previous # NoReturn
  /\ files # <<>> /\ files[1].kind = "buffer" /\ files[1].doc # <<>>
  /\ Len(ret.results) >= 2
  /\ ret.results[1].Ocorrencia >= 1

\* ---- C17
\* one turn of the loop of the extractor that the request r selects
BodyOf(r, t, c, e) ==
  IF ~AllThree(r) THEN ExtractTagDataBody(t, c, e)
  ELSE IF r.module = "xml_parser" THEN ExtractFilteredBody(t, c, e, r)
  ELSE ExtractFilteredBackupBody(t, c, e, r)

\* the extractor run on the file f alone, from a fresh tree and an empty
\* counter: what it returns after n end events, es being those to come
RECURSIVE WalkAlone(_, _, _, _, _, _)
WalkAlone(r, f, t, es, c, n) ==
  IF f.err # "none" /\ (n = f.at \/ es = <<>>) THEN NoTagData
  ELSE IF es = <<>> THEN TagData(c)
  ELSE LET w == BodyOf(r, t, c, Head(es))
       IN  IF w.exc THEN NoTagData ELSE WalkAlone(r, f, w.tree, Tail(es), w.counter, n + 1)

\* the records of the file f processed on its own under the request r
RecordsAlone(r, f) ==
  IF f.kind = "invalid" THEN << ResultRecord(r, f, ARQUIVO_INVALIDO, 0) >>
  ELSE IF f.kind = "broken" THEN << ResultRecord(r, f, ERRO_INESPERADO, 0) >>
  ELSE Report(r, f, WalkAlone(r, f, ParseTree(f.doc), EndEvents(f.doc, IterTag(r)), <<>>, 0))

RECURSIVE ConcatAlone(_, _)
ConcatAlone(r, fs) ==
  IF fs = <<>> THEN <<>> ELSE RecordsAlone(r, Head(fs)) \o ConcatAlone(r, Tail(fs))

\* C17: the records of a file depend only on its content and the request:
\* whatever files precede it, invalid and failing ones included, they are
\* the records of the file processed on its own.
C17_FilesIndependent ==
  (req.op = "process_files" /\ pc \in {"files", "done"}) =>
    results = ConcatAlone(req, SubSeq(files, 1, fi - 1))

\* a file with several values reported after a file whose parse raised
\* once it had counted a value
C17_Witness ==
  /\ req.op = "process_files" /\ pc = "done" /\ ~AllThree(req)
  /\ Len(files) = 2
  /\ files[1].name = "truncated.xml" /\ files[2].name = "faturas.xml"
  /\ Len(results) = 3
  /\ results[2].Ocorrencia = 1 /\ results[3].Ocorrencia = 1

\* ---- C18
\* element e of tree t is cleared and has no preceding sibling left
Released(t, e) ==
  /\ Descendants(t, e) = {}
  /\ t[e].text = None
  /\ ~HasPrevious(t, e)

\* C18: in every walk, after each element of the iterated tag has been
\* processed, matched or not, its subtree is cleared and none of its
\* preceding siblings remains attached to its parent.
C18_WalkReleases ==
  [][ (pc = "walk" /\ ev # <<>> /\ delivered' = delivered + 1) =>
        Released(tree', Head(ev))
    ]_vars

\* ---- C19
\* the numeric codes of the 27 federative units and their abbreviations
StateCodes ==
  { << <<"1", "1">>, "RO" >>, << <<"1", "2">>, "AC" >>, << <<"1", "3">>, "AM" >>,
    << <<"1", "4">>, "RR" >>, << <<"1", "5">>, "PA" >>, << <<"1", "6">>, "AP" >>,
    << <<"1", "7">>, "TO" >>, << <<"2", "1">>, "MA" >>, << <<"2", "2">>, "PI" >>,
    << <<"2", "3">>, "CE" >>, << <<"2", "4">>, "RN" >>, << <<"2", "5">>, "PB" >>,
    << <<"2", "6">>, "PE" >>, << <<"2", "7">>, "AL" >>, << <<"2", "8">>, "SE" >>,
    << <<"2", "9">>, "BA" >>, << <<"3", "1">>, "MG" >>, << <<"3", "2">>, "ES" >>,
    << <<"3", "3">>, "RJ" >>, << <<"3", "5">>, "SP" >>, << <<"4", "1">>, "PR" >>,
    << <<"4", "2">>, "SC" >>, << <<"4", "3">>, "RS" >>, << <<"5", "0">>, "MS" >>,
    << <<"5", "1">>, "MT" >>, << <<"5", "2">>, "GO" >>, << <<"5", "3">>, "DF" >> }

\* C19: format_uf maps each of the 27 two-digit state codes to the
\* abbreviation of its state ("35" to "SP", "31" to "MG") and every other
\* input, such as "99", to the empty string.
C19_FormatUf ==
  pc = "formatted" =>
    /\ Cardinality(StateCodes) = 27 /\ Len(ufs) = 27
    /\ \A sc \in StateCodes : req.value = sc[1] => ret.value = sc[2]
    /\ (\A sc \in StateCodes : req.value # sc[1]) => ret.value = ""
    /\ req.value = <<"3", "5">> => ret.value = "SP"
    /\ req.value = <<"3", "1">> => ret.value = "MG"
    /\ req.value = <<"9", "9">> => ret.value = ""

\* the code 35 has been formatted
C19_Witness ==
  pc = "formatted" /\ req.value = <<"3", "5">> /\ ret.value = "SP"

\* ---- C20
\* the elements reached from element i by one child step per segment
RECURSIVE AtSegments(_, _, _)
AtSegments(t, S, segs) ==
  IF segs = <<>> THEN S
  ELSE AtSegments(t, { j \in DOMAIN t : /\ t[j].attached /\ t[j].parent \in S
                                         /\ <<t[j].tag>> = Head(segs) },
                  Tail(segs))

\* element j of tree t carries the filter value
HasValue(t, j, r) == t[j].text # None /\ Strip(t[j].text) = r.filter_value

\* the elements named filter_tag at exactly the supplied path below ctx
AtPath(t, ctx, r) ==
  AtSegments(t, {ctx}, Append(Segments(r.filter_parent_path), <<r.filter_tag>>))

\* the elements named filter_tag anywhere below ctx
Beneath(t, ctx, r) == { j \in Descendants(t, ctx) : t[j].tag = r.filter_tag }

\* the rule as stated: without a path any filter_tag element beneath the
\* context counts, with a path only those at exactly the path
ScopeAsStated(t, ctx, r) ==
  IF r.filter_parent_path = <<>>
  THEN \E j \in Beneath(t, ctx, r) : HasValue(t, j, r)
  ELSE \E j \in AtPath(t, ctx, r) : HasValue(t, j, r)

\* the rule amended: without a path the filter_tag children of the context
\* count when it has any, and only otherwise those beneath it at any depth
ScopeChildrenFirst(t, ctx, r) ==
  IF r.filter_parent_path = <<>> /\ AtPath(t, ctx, r) = {}
  THEN \E j \in Beneath(t, ctx, r) : HasValue(t, j, r)
  ELSE \E j \in AtPath(t, ctx, r) : HasValue(t, j, r)

\* the context that the turn of the filter extractor on element e examines
Examined(t, e, r) ==
  IF r.module = "xml_parser" THEN FirstNamed(t, e, r.parent_tag) ELSE e

\* a turn of the loop of a filter extractor that does not raise
FilterTurn ==
  /\ pc = "walk" /\ req.op = "process_files" /\ AllThree(req)
  /\ ev # <<>> /\ delivered' = delivered + 1

\* the file just finished had contexts and none of them matched
NoContextMatched ==
  /\ FileDone /\ AllThree(req)
  /\ ~tag_data.isNone /\ tag_data.items = <<>>

\* the last record is the no-match placeholder of the file just finished
NoMatchRecord ==
  /\ results[Len(results)].Valor = NENHUM_VALOR
  /\ results[Len(results)].Ocorrencia = 0
  /\ results[Len(results)].Nome_do_Arquivo = files[fi - 1].name

ClaimedKey(t, ctx, target_tag) ==
  LET first == FirstNamed(t, ctx, target_tag)
  IN  IF first # 0 /\ Strip(t[first].text) # <<>> THEN Strip(t[first].text)
      ELSE TARGET_ABSENT

\* C21: each context whose filter matches adds exactly one to the counter,
\* under the trimmed text of the first target_tag element inside the context
\* when that element exists and its text is neither missing nor
\* whitespace-only, and under the target-absent sentinel otherwise; a
\* context whose filter does not match adds nothing.
C21_OneIncrementPerMatch ==
  [][ FilterTurn =>
        LET ctx == Examined(tree, Head(ev), req)
        IN  counter' = IF FilterMatch(tree, ctx, req.filter_tag, req.filter_value,
                                      req.filter_parent_path)
                       THEN CounterInc(counter, ClaimedKey(tree, ctx, req.tag_name))
                       ELSE counter
    ]_vars

\* ---- C22
\* document d with every element taken out of its namespace
Unqualified(d) == [i \in DOMAIN d |-> Node(LocalName(d[i].tag), d[i].text, d[i].parent)]

WithoutNamespaces(f) == [f EXCEPT !.doc = Unqualified(f.doc)]

\* C22: the walks trigger on every element whose local name is the iterated
\* tag, whatever its namespace, and a document whose elements carry a
\* namespace yields the records of the same document without namespaces.
C22_LocalNameMatch ==
  /\ (pc = "walk" /\ delivered = 0) =>
       ev = EndOrder(files[fi].doc,
                     { i \in DOMAIN files[fi].doc :
                         LocalName(files[fi].doc[i].tag) = IterTag(req) })
  /\ (req.op = "process_files" /\ pc \in {"files", "done"}) =>
       results = ConcatAlone(req, [k \in 1..(fi - 1) |-> WithoutNamespaces(files[k])])

\* ---- C23
\* the value counted for a match: the trimmed text of the first target_tag
\* element beneath the element scope when it has text, the sentinel otherwise
FirstTargetText(t, scope, target_tag) ==
  LET first == FirstNamed(t, scope, target_tag)
  IN  IF first # 0 /\ t[first].text # None THEN Strip(t[first].text) ELSE TARGET_ABSENT

CurrentFilterExtractor ==
  req.op = "process_files" /\ req.module = "xml_parser" /\ AllThree(req)

\* C23: the filter extractor of xml_parser.py walks the Fatura elements
\* whatever context tag is passed; the context is the first context_tag
\* element inside the Fatura, the filter is evaluated on it, and the target
\* is searched in the whole Fatura for the target "nNF" and inside the
\* context for any other target.
C23_WalksFatura ==
  [][ /\ (CurrentFilterExtractor /\ pc = "files" /\ pc' = "walk") =>
           ev' = EndEvents(files[fi].doc, "Fatura")
      /\ (CurrentFilterExtractor /\ FilterTurn) =>
           LET fatura == Head(ev)
               context == FirstNamed(tree, fatura, req.parent_tag)
               scope == IF req.tag_name = "nNF" THEN fatura ELSE context
           IN  /\ context # 0
               /\ counter' = IF ScopeChildrenFirst(tree, context, req)
                              THEN CounterInc(counter,
                                              FirstTargetText(tree, scope, req.tag_name))
                              ELSE counter
    ]_vars

\* the nNF of the Fatura, outside its context, was counted for a context
\* tag other than infNFCom
C23_Witness ==
  /\ FileDone /\ CurrentFilterExtractor
  /\ files[fi - 1].name = "scope.xml"
  /\ req.parent_tag = "dest" /\ req.tag_name = "nNF"
  /\ tag_data.items = << [value |-> <<"9999">>, count |-> 1] >>

\* ---- C24
\* the document x is well-formed: at most one declaration, in front, and a
\* root start tag that parses
WellFormed(x) == x.decl <= 1 /\ Parses(x)

\* the NUMERO_LOTE attribute as a parser reads it back from x
ReadBack(x) == IF Parses(x) THEN x.NUMERO_LOTE ELSE <<"[not well-formed]">>

\* C24: for every batch_number, whatever characters it holds, the document
\* returned by consolidation (empty or not, normalized or not) is
\* well-formed and its root's NUMERO_LOTE reads back as that string.
C24_BatchNumberReadsBack ==
  Returned => /\ WellFormed(ret.xml)
              /\ ReadBack(ret.xml) = req.numero_lote

\* ---- C25
\* the call is under way
Running == pc \in {"files", "walk"}

\* what is left of the call: the files to come, then the phase within the
\* file, then the end events to come
Rank ==
  << Len(files) + 1 - fi,
     IF pc = "files" THEN 2 ELSE IF pc = "walk" THEN 1 ELSE 0,
     Len(ev) >>

Less(a, b) ==
  \/ a[1] < b[1]
  \/ a[1] = b[1] /\ a[2] < b[2]
  \/ a[1] = b[1] /\ a[2] = b[2] /\ a[3] < b[3]

\* the siblings in front of element e
PrecedingSiblings(t, e) ==
  { j \in DOMAIN t : j < e /\ t[j].attached /\ t[j].parent = t[e].parent }

\* the loop is at an element that its iterator delivers and whose context,
\* where the extractor looks one up, exists
AtElement ==
  /\ pc = "walk" /\ ev # <<>> /\ ~IteratorRaises
  /\ (req.op = "process_files" /\ AllThree(req)) => Examined(tree, Head(ev), req) # 0

\* C25: every call terminates: each step of a call leaves less to do, each
\* element of the iterated tag is visited once, and the pruning loop after
\* an element ends, after as many deletions as the element has preceding
\* siblings, with the element the first child of its parent.
C25_WalkTerminates ==
  [][ /\ Running => (Less(Rank', Rank) /\ Rank'[1] >= 0)
      /\ (pc = "walk" /\ delivered' = delivered + 1) =>
           (ev # <<>> /\ ev' = Tail(ev) /\ \A k \in DOMAIN ev' : ev'[k] # Head(ev))
      /\ AtElement =>
           LET e == Head(ev)
           IN  /\ delivered' = delivered + 1
               /\ Cardinality({ j \in PrecedingSiblings(tree, e) : ~tree'[j].attached })
                    = Cardinality(PrecedingSiblings(tree, e))
               /\ ~HasPrevious(tree', e)
    ]_vars

\* ---- C26
\* one turn of the extractor's loop with elem.clear() and the pruning loop
\* left out: the counter is counted alike, the tree stays as it was parsed,
\* and the turn raises only where the context lookup finds nothing
BodyKeepingTree(r, t, c, e) ==
  [tree |-> t,
   counter |-> BodyOf(r, t, c, e).counter,
   exc |-> /\ AllThree(r) /\ r.module = "xml_parser"
           /\ FirstNamed(t, e, r.parent_tag) = 0]

\* the walk of the file f without clearing and pruning
RECURSIVE WalkKeepingTree(_, _, _, _, _, _)
WalkKeepingTree(r, f, t, es, c, n) ==
  IF f.err # "none" /\ (n = f.at \/ es = <<>>) THEN NoTagData
  ELSE IF es = <<>> THEN TagData(c)
  ELSE LET w == BodyKeepingTree(r, t, c, Head(es))
       IN  IF w.exc THEN NoTagData
           ELSE WalkKeepingTree(r, f, w.tree, Tail(es), w.counter, n + 1)

\* C26: clearing and pruning never change a result: extract_tag_data and
\* extract_filtered_tag_data return, for every document, elements of the
\* iterated tag nested in one another included, what the same walk returns
\* without clearing the processed elements and deleting their preceding
\* siblings.
C26_ClearingChangesNothing ==
  FileDone =>
    tag_data = WalkKeepingTree(req, files[fi - 1], ParseTree(LastDoc),
                               EndEvents(LastDoc, IterTag(req)), <<>>, 0)

====
